---- MODULE Spec2Model ----
(***************************************************************************)
(* State-machine model of the ECG holter firmware.                         *)
(*                                                                         *)
(*   Spec       : src/main.cpp, the capture + upload orchestrator          *)
(*                (setup(), loop() and everything they call).              *)
(*   SpecHolter : src/holter_capture.cpp, the capture library, driven by   *)
(*                an arbitrary caller of its public interface.             *)
(*   SpecFirmware : either of the two.                                     *)
(*                                                                         *)
(* Both translation units declare the same globals (isCapturing,           *)
(* sdAvailable, dataFile, sampleCount, bufferIndex, ...); the two          *)
(* specifications share the variables of those names.                      *)
(*                                                                         *)
(* The SD card, the clock, WiFi, the MQTT broker and the HTTP endpoint are *)
(* the environment: every value the code reads from them is an input       *)
(* chosen with \E.  Time is in microseconds (micros()); millis() is        *)
(* clock \div 1000.                                                        *)
(***************************************************************************)
EXTENDS Integers, Sequences, FiniteSets, TLC

----------------------------------------------------------------------------
(* Program constants *)

CAPTURE_DURATION_SEC == 15
ECG_SAMPLE_RATE_HZ == 250
IMU_SAMPLE_RATE_HZ == 50
ECG_INTERVAL_US == 1000000 \div ECG_SAMPLE_RATE_HZ
BUFFER_SIZE == 8192

\* sizeof(FileHeader), packed: 4+2+2+4+4+2+2+4+4
HEADER_SIZE == 28
\* sizeof(ECGSample), sizeof(IMUSample): three int16_t each
ECG_RECORD_SIZE == 6
IMU_RECORD_SIZE == 6
\* byte offsets of num_ecg_samples and num_imu_samples in FileHeader
OFFSET_NUM_ECG == 20
OFFSET_NUM_IMU == 24
COUNT_SIZE == 4

\* main.cpp flushes the buffer every 3000 ms, holter_capture.cpp every 2000 ms
MAIN_FLUSH_PERIOD_MS == 3000
HOLTER_FLUSH_PERIOD_MS == 2000
\* sample counts main.cpp's startCapture fakes when there is no SD card
SIMULATED_SAMPLES == 100
\* the wait of requestUploadURL
HANDSHAKE_TIMEOUT_MS == 60000
MQTT_MAX_ATTEMPTS == 3
\* setup(): delay(2000) after Serial.begin, delay(3000) before startCapture
SETUP_DELAY_MS == 2000 + 3000

STATE_INIT == "STATE_INIT"
STATE_CAPTURING == "STATE_CAPTURING"
STATE_UPLOAD_REQUEST == "STATE_UPLOAD_REQUEST"
STATE_UPLOADING == "STATE_UPLOADING"
STATE_COMPLETE == "STATE_COMPLETE"
STATE_ERROR == "STATE_ERROR"

SystemState ==
  {STATE_INIT, STATE_CAPTURING, STATE_UPLOAD_REQUEST, STATE_UPLOADING,
   STATE_COMPLETE, STATE_ERROR}

----------------------------------------------------------------------------
(* Bounds of the model *)

\* store faults (short write, short read, failed open, card lost while a
\* capture runs) injected in a run
MaxFaults == 1
\* distinct readings of the real-time clock, 1..MaxTimestamp
MaxTimestamp == 2
\* calls of mqttClient.connect() counted per connectMQTT()
MaxConnects == 4

Min(a, b) == IF a < b THEN a ELSE b
Max(a, b) == IF a > b THEN a ELSE b
Clamp(x, lo, hi) == Max(lo, Min(x, hi))

RECURSIVE Pow256(_)
Pow256(k) == IF k = 0 THEN 1 ELSE 256 * Pow256(k - 1)

----------------------------------------------------------------------------
(* The durable store (SD card): one record per file.                       *)
(*   size  : length in bytes                                               *)
(*   hlen  : how many of the first HEADER_SIZE bytes were written by the   *)
(*           initial header write (the rest, if any, hold sample bytes)    *)
(*   fixed : header bytes 0..19, "ok" (as written at session start) or     *)
(*           "garbage"                                                     *)
(*   ecg, imu : the little-endian uint32 at offsets 20 and 24, Garbage     *)
(*           when those bytes are not header bytes                         *)
(*   data  : "intact" while no sample byte has been overwritten            *)
(***************************************************************************)

NoFile == [size |-> -1]
Garbage == -1
NoHandle == 0

Timestamps == 1 .. MaxTimestamp

\* What write(buf, len) may return: len, or fewer bytes (a short write).
ShortOutcomes(len) == {0, len \div 2, len - COUNT_SIZE} \cap (0 .. (len - 1))
WriteOutcomes(len) == ShortOutcomes(len) \cup {len}

\* SD.open(path, FILE_WRITE): creates or truncates the file.
NewFile == [size |-> 0, hlen |-> 0, fixed |-> "ok", ecg |-> Garbage,
            imu |-> Garbage, data |-> "intact"]

\* The initial header (counts zero) written at offset 0 of the empty file;
\* j bytes are accepted.
WriteInitialHeader(f, j) ==
  [f EXCEPT !.size = j, !.hlen = j,
            !.fixed = "ok",
            !.ecg = IF j >= OFFSET_NUM_ECG + COUNT_SIZE THEN 0 ELSE Garbage,
            !.imu = IF j >= OFFSET_NUM_IMU + COUNT_SIZE THEN 0 ELSE Garbage]

\* Sample bytes appended at the end of the file; j bytes are accepted.
AppendData(f, j) == [f EXCEPT !.size = f.size + j]

\* A store that drops the bytes of a count write.
PatchBytesDropped(old, new, j) == old

\* The first j bytes (little endian) of the uint32 new written over the
\* uint32 old.
PatchBytes(old, new, j) ==
  IF j = 0 THEN old
  ELSE IF j >= COUNT_SIZE THEN new
  ELSE IF old = Garbage THEN Garbage
  ELSE (new % Pow256(j)) + (old \div Pow256(j)) * Pow256(j)

\* Whether a write of j > 0 bytes at offset off lands on sample bytes.
Clobbers(f, off, j) ==
  /\ j > 0
  /\ f.size > f.hlen
  /\ off + j > f.hlen

\* write of a uint32 at offset off (20 or 24), j bytes accepted.
WriteCount(f, off, v, j) ==
  [f EXCEPT
     !.size = IF j > 0 THEN Max(f.size, off + j) ELSE f.size,
     !.ecg = IF off = OFFSET_NUM_ECG THEN PatchBytes(f.ecg, v, j) ELSE f.ecg,
     !.imu = IF off = OFFSET_NUM_IMU THEN PatchBytes(f.imu, v, j) ELSE f.imu,
     !.data = IF Clobbers(f, off, j) THEN "clobbered" ELSE f.data]

\* write of a whole FileHeader image img = [fixed, ecg, imu] at offset 0,
\* j bytes accepted.
WriteHeaderImage(f, img, j) ==
  [f EXCEPT
     !.size = Max(f.size, j),
     !.fixed = IF j = 0 THEN f.fixed
               ELSE IF j >= OFFSET_NUM_ECG THEN img.fixed
               ELSE IF img.fixed = f.fixed THEN f.fixed ELSE "garbage",
     !.ecg = PatchBytes(f.ecg, img.ecg, Clamp(j - OFFSET_NUM_ECG, 0, COUNT_SIZE)),
     !.imu = PatchBytes(f.imu, img.imu, Clamp(j - OFFSET_NUM_IMU, 0, COUNT_SIZE)),
     !.data = IF Clobbers(f, 0, j) THEN "clobbered" ELSE f.data]

\* read of HEADER_SIZE bytes at offset 0 into an uninitialised FileHeader:
\* r bytes are read; the bytes not read keep the indeterminate stack
\* contents u.
ReadHeaderImage(f, r, u) ==
  [fixed |-> IF r >= OFFSET_NUM_ECG THEN f.fixed ELSE u,
   ecg |-> IF r >= OFFSET_NUM_ECG + COUNT_SIZE THEN f.ecg ELSE Garbage,
   imu |-> IF r >= HEADER_SIZE THEN f.imu ELSE Garbage]

ExpectedSize(nEcg, nImu) ==
  HEADER_SIZE + nEcg * ECG_RECORD_SIZE + nImu * IMU_RECORD_SIZE

----------------------------------------------------------------------------
(* State *)

VARIABLES
  \* main.cpp only
  currentState,        \* SystemState
  pc,                  \* position of the control flow (see the actions);
                       \* "library" throughout holter_capture.cpp
  imuSampleCount,
  uploadURL,           \* "" or a destination
  urlReceived,
  uploadStartTime,     \* ms
  attempts,            \* connectMQTT's retry counter
  mqttConnected,       \* the connection mqttClient holds
  \* globals both translation units declare
  isCapturing,
  sdAvailable,
  dataFile,            \* name of the file the write handle is open on, or NoHandle
  currentSessionFile,  \* the session's timestamp ("/session_<timestamp>.bin"), 0 for ""
  captureStartTime,    \* ms
  sampleCount,
  lastECGSample,       \* us
  lastFlush,           \* ms
  bufferIndex,
  \* environment
  files,               \* the SD card: file name -> file record or NoFile
  clock,               \* micros() since boot
  rtc,                 \* what time() answers at this boot's startCapture: 1 is the
                       \* reading of a clock that started with the power, a larger
                       \* value one that has run on since an earlier boot
  \* history
  starts,              \* calls of (holter_)startCapture since boot
  faults,              \* store faults injected since boot (see MaxFaults)
  shortFlush,          \* some buffer flush since boot was accepted short
  overrun,             \* some byte since boot was stored at writeBuffer[i], i >= BUFFER_SIZE
  splitFlush,          \* some buffer flush since boot wrote part of a sample record
  transfer,            \* the last uploadToS3(): the status the PUT returned (0: no PUT),
                       \* the destination it was sent to, and what became of SD.remove
  connects,            \* calls of mqttClient.connect() made so far by the connectMQTT()
                       \* in progress, counted up to MaxConnects; 0 when none is
  ops,                 \* store calls issued by the last stop-capture, in order
  ret                  \* holter_capture.cpp: what the last holter_startCapture returned

vars ==
  <<currentState, pc, imuSampleCount, uploadURL, urlReceived, uploadStartTime,
    attempts, mqttConnected, isCapturing, sdAvailable, dataFile,
    currentSessionFile, captureStartTime, sampleCount, lastECGSample,
    lastFlush, bufferIndex, files, clock, starts, faults, shortFlush,
    overrun, splitFlush, transfer, rtc, connects, ops, ret>>

netVars ==
  <<uploadURL, urlReceived, uploadStartTime, attempts, mqttConnected>>

captureVars ==
  <<isCapturing, dataFile, currentSessionFile, captureStartTime, sampleCount,
    imuSampleCount, lastECGSample, lastFlush, bufferIndex>>

Millis(us) == us \div 1000

\* No uploadToS3() has made a PUT.
NoTransfer == [code |-> 0, url |-> "", remove |-> "not_called"]

\* The static initialisers of the globals (main.cpp 51, 85-111;
\* holter_capture.cpp 30-49), on an SD card that holds no session file.
BootState ==
  /\ currentState = STATE_INIT
  /\ imuSampleCount = 0
  /\ uploadURL = ""
  /\ urlReceived = FALSE
  /\ uploadStartTime = 0
  /\ attempts = 0
  /\ mqttConnected = FALSE
  /\ isCapturing = FALSE
  /\ sdAvailable = FALSE
  /\ dataFile = NoHandle
  /\ currentSessionFile = 0
  /\ captureStartTime = 0
  /\ sampleCount = 0
  /\ lastECGSample = 0
  /\ lastFlush = 0
  /\ bufferIndex = 0
  /\ clock = 0
  /\ starts = 0
  /\ faults = 0
  /\ shortFlush = FALSE
  /\ overrun = FALSE
  /\ splitFlush = FALSE
  /\ transfer = NoTransfer
  /\ connects = 0
  /\ ops = <<>>
  /\ ret = FALSE

Init ==
  /\ BootState
  /\ pc = "boot"
  /\ files = [n \in Timestamps |-> NoFile]
  /\ rtc = 1

----------------------------------------------------------------------------
(* Write buffer *)

\* How a short write is drawn: the kind of the outcome of each write call.
Kinds == {"full", "zero", "half"}

OutcomeOf(kind, len) ==
  CASE kind = "full" -> len
    [] kind = "zero" -> 0
    [] kind = "half" -> len \div 2

\* The short writes a draw ws asks for.
ShortKinds(ws) == {i \in DOMAIN ws : ws[i] # "full"}

\* The kind of the i-th buffer write of a handler call under the draw ws.
KindAt(ws, i) == IF i \in DOMAIN ws THEN ws[i] ELSE "full"

\* A writer state threads the buffer cursor, the file under the write
\* handle, the number of buffer writes issued and the faults drawn through
\* one handler call:  [b, f, n, k], with what the call did to the buffer:
\* over, a byte was stored at an index >= BUFFER_SIZE; part, a buffer write
\* was issued for a byte count that is not a whole number of sample records.
Writer(b, f) ==
  [b |-> b, f |-> f, n |-> 0, k |-> 0, over |-> FALSE, part |-> FALSE]

\* main.cpp flushBuffer(): writes only when the card is mounted, the buffer
\* is not empty and the handle is valid, and only then resets the cursor.
FlushBufferMain(w, sd, open, ws) ==
  IF sd /\ w.b > 0 /\ open
  THEN LET written == OutcomeOf(KindAt(ws, w.n + 1), w.b)
       IN [w EXCEPT !.b = 0,
                    !.f = AppendData(w.f, written),
                    !.n = w.n + 1,
                    !.k = w.k + (IF written < w.b THEN 1 ELSE 0),
                    !.part = w.part \/ w.b % ECG_RECORD_SIZE # 0]
  ELSE w

\* holter_capture.cpp flushBuffer(): resets the cursor on every path.
FlushBufferHolter(w, sd, open, ws) ==
  IF ~sd \/ w.b = 0 THEN [w EXCEPT !.b = 0]
  ELSE IF ~open THEN [w EXCEPT !.b = 0]
  ELSE LET written == OutcomeOf(KindAt(ws, w.n + 1), w.b)
       IN [w EXCEPT !.b = 0,
                    !.f = AppendData(w.f, written),
                    !.n = w.n + 1,
                    !.k = w.k + (IF written < w.b THEN 1 ELSE 0),
                    !.part = w.part \/ w.b % ECG_RECORD_SIZE # 0]

\* A flushBuffer() that does nothing.
FlushBufferSkipped(variant, w, sd, open, ws) == w

FlushBuffer(variant, w, sd, open, ws) ==
  IF variant = "main" THEN FlushBufferMain(w, sd, open, ws)
  ELSE FlushBufferHolter(w, sd, open, ws)

\* writeToBuffer(data, len): byte by byte, writeBuffer[bufferIndex++] = data[i]
\* and a flush as soon as bufferIndex >= BUFFER_SIZE.
RECURSIVE WriteToBuffer(_, _, _, _, _, _)
WriteToBuffer(variant, w, len, sd, open, ws) ==
  IF len = 0 THEN w
  ELSE LET w1 == [w EXCEPT !.b = w.b + 1,
                           !.over = w.over \/ w.b >= BUFFER_SIZE]
           w2 == IF w1.b >= BUFFER_SIZE
                 THEN FlushBuffer(variant, w1, sd, open, ws) ELSE w1
       IN WriteToBuffer(variant, w2, len - 1, sd, open, ws)

\* k sample records through writeToBuffer.  The records that leave the
\* cursor below BUFFER_SIZE are appended in one step; the record that
\* reaches BUFFER_SIZE goes through the byte loop.  Once the cursor is at
\* or past BUFFER_SIZE and flushBuffer leaves the writer as it is, every
\* further byte is stored past the end of the buffer.
RECURSIVE WriteRecords(_, _, _, _, _, _)
WriteRecords(variant, w, k, sd, open, ws) ==
  IF k = 0 THEN w
  ELSE IF w.b >= BUFFER_SIZE /\ FlushBuffer(variant, w, sd, open, ws) = w
  THEN [w EXCEPT !.b = w.b + k * ECG_RECORD_SIZE, !.over = TRUE]
  ELSE LET room == IF w.b < BUFFER_SIZE
                   THEN (BUFFER_SIZE - 1 - w.b) \div ECG_RECORD_SIZE ELSE 0
           m == Min(room, k)
       IN IF m > 0
          THEN WriteRecords(variant, [w EXCEPT !.b = w.b + m * ECG_RECORD_SIZE],
                            k - m, sd, open, ws)
          ELSE WriteRecords(variant,
                            WriteToBuffer(variant, w, ECG_RECORD_SIZE, sd, open, ws),
                            k - 1, sd, open, ws)

----------------------------------------------------------------------------
(* Stop-capture (finalize) *)

\* One store call: what was called, where in the file, how many bytes, and
\* the buffer cursor at the time of the call.
Op(op, off, len, cur) == [op |-> op, off |-> off, len |-> len, cur |-> cur]

\* The store call of a buffer flush, when flushBuffer issued one.
FlushOps(before, after) ==
  IF after.n > before.n
  THEN <<Op("bufwrite", before.f.size, before.b, before.b)>>
  ELSE <<>>

\* Some buffer write among the calls was issued for a byte count that is
\* not a whole number of sample records.
SplitIn(calls) ==
  \E i \in DOMAIN calls :
    calls[i].op = "bufwrite" /\ calls[i].len % ECG_RECORD_SIZE # 0

\* What the environment may answer to the calls of one stop-capture:
\*   ws     : the kind of the buffer write's outcome
\*   r      : bytes read of the header (main.cpp)
\*   u      : indeterminate contents of the FileHeader on the stack
\*   h      : bytes accepted of the header write (main.cpp)
\*   j1, j2 : bytes accepted of the two count writes (holter_capture.cpp)
\*   reopen : whether SD.open(.., FILE_READ) succeeds
StopAnswersMain ==
  [ws : [1 .. 1 -> Kinds], r : {"none", "all"}, u : {"ok", "garbage"},
   h : WriteOutcomes(HEADER_SIZE), reopen : BOOLEAN]

StopAnswersHolter ==
  [ws : [1 .. 1 -> Kinds], j1 : WriteOutcomes(COUNT_SIZE),
   j2 : WriteOutcomes(COUNT_SIZE), reopen : BOOLEAN]

\* A stop-capture that writes the header before it flushes the buffer.
PatchHeaderMainEarly(b, f, nEcg, nImu, e) ==
  LET w0 == Writer(b, f)
      img == [ReadHeaderImage(f, Min(f.size, HEADER_SIZE), e.u)
                EXCEPT !.ecg = nEcg, !.imu = nImu]
      w1 == FlushBufferMain([w0 EXCEPT !.f = WriteHeaderImage(f, img, e.h)],
                            TRUE, TRUE, e.ws)
  IN [f |-> w1.f,
      b |-> w1.b,
      short |-> w1.k,
      k |-> w1.k
            + (IF e.r = "none" THEN 1 ELSE 0)
            + (IF e.h < HEADER_SIZE THEN 1 ELSE 0),
      ops |-> <<Op("seek", 0, 0, b),
                Op("read", 0, HEADER_SIZE, b),
                Op("seek", 0, 0, b),
                Op("write", 0, HEADER_SIZE, b)>>
              \o FlushOps(w0, w1)
              \o <<Op("flush", 0, 0, w1.b),
                   Op("close", 0, 0, w1.b)>>]

\* main.cpp stopCapture() 615-645: flush the buffer and the file, read the
\* header back, set the counts, write the whole header at offset 0, flush,
\* close.  Gives the file, the cursor, the calls and the faults drawn.
PatchHeaderMain(b, f, nEcg, nImu, e) ==
  LET w0 == Writer(b, f)
      w1 == FlushBufferMain(w0, TRUE, TRUE, e.ws)
      r == IF e.r = "all" THEN Min(w1.f.size, HEADER_SIZE) ELSE 0
      img == [ReadHeaderImage(w1.f, r, e.u) EXCEPT !.ecg = nEcg, !.imu = nImu]
      f2 == WriteHeaderImage(w1.f, img, e.h)
  IN [f |-> f2,
      b |-> w1.b,
      short |-> w1.k,
      k |-> w1.k
            + (IF e.r = "none" THEN 1 ELSE 0)
            + (IF e.h < HEADER_SIZE THEN 1 ELSE 0),
      ops |-> FlushOps(w0, w1)
              \o <<Op("flush", 0, 0, w1.b),
                   Op("seek", 0, 0, w1.b),
                   Op("read", 0, HEADER_SIZE, w1.b),
                   Op("seek", 0, 0, w1.b),
                   Op("write", 0, HEADER_SIZE, w1.b),
                   Op("flush", 0, 0, w1.b),
                   Op("close", 0, 0, w1.b)>>]

\* main.cpp stopCapture() 647-686: re-open read-only, take the size, and
\* decide the next state.
VerifyMain(p, nEcg, nImu, e) ==
  IF ~e.reopen
  THEN [state |-> STATE_ERROR, ops |-> p.ops \o <<Op("open_r", 0, 0, p.b)>>,
        k |-> p.k + 1]
  ELSE [state |-> IF p.f.size < HEADER_SIZE THEN STATE_ERROR
                  ELSE STATE_UPLOAD_REQUEST,
        ops |-> p.ops \o <<Op("open_r", 0, 0, p.b), Op("close_r", 0, 0, p.b)>>,
        k |-> p.k]

\* holter_capture.cpp holter_stopCapture() 308-342: flush the buffer and the
\* file, write the two counts at their offsets, flush.  The write handle
\* stays open.
PatchHeaderHolter(b, f, nEcg, e) ==
  LET w0 == Writer(b, f)
      w1 == FlushBufferHolter(w0, TRUE, TRUE, e.ws)
      f2 == WriteCount(w1.f, OFFSET_NUM_ECG, nEcg, e.j1)
      f3 == WriteCount(f2, OFFSET_NUM_IMU, 0, e.j2)
  IN [f |-> f3,
      b |-> w1.b,
      short |-> w1.k,
      k |-> w1.k
            + (IF e.j1 < COUNT_SIZE THEN 1 ELSE 0)
            + (IF e.j2 < COUNT_SIZE THEN 1 ELSE 0),
      ops |-> FlushOps(w0, w1)
              \o <<Op("flush", 0, 0, w1.b),
                   Op("seek", OFFSET_NUM_ECG, 0, w1.b),
                   Op("write", OFFSET_NUM_ECG, COUNT_SIZE, w1.b),
                   Op("seek", OFFSET_NUM_IMU, 0, w1.b),
                   Op("write", OFFSET_NUM_IMU, COUNT_SIZE, w1.b),
                   Op("flush", 0, 0, w1.b)>>]

\* holter_capture.cpp holter_stopCapture() 347-394: re-open read-only, read
\* the size and the header, log what differs.  Nothing is returned and no
\* state is changed.
VerifyHolter(p, e) ==
  IF ~e.reopen
  THEN [ops |-> p.ops \o <<Op("open_r", 0, 0, p.b)>>, k |-> p.k + 1]
  ELSE [ops |-> p.ops \o <<Op("open_r", 0, 0, p.b),
                           Op("read", 0, HEADER_SIZE, p.b),
                           Op("close_r", 0, 0, p.b)>>,
        k |-> p.k]

----------------------------------------------------------------------------
(* MQTT client *)

TOPIC_RESPONSE == "response"
Urls == {"url1", "url2"}
NoMsg == [topic |-> "", payload |-> ""]
\* Payloads: malformed JSON, JSON without upload_url, JSON with upload_url.
Msgs == [topic : {TOPIC_RESPONSE, "other"}, payload : {"bad", "nourl"} \cup Urls]

Net == [conn |-> mqttConnected, url |-> uploadURL, rcv |-> urlReceived]

SetNet(n) ==
  /\ mqttConnected' = n.conn
  /\ uploadURL' = n.url
  /\ urlReceived' = n.rcv

\* A callback that takes upload_url from a message on any topic.
MqttCallbackAnyTopic(n, m) ==
  IF m.payload \in Urls THEN [n EXCEPT !.url = m.payload, !.rcv = TRUE] ELSE n

\* mqttCallback(topic, payload, length)
MqttCallback(n, m) ==
  IF m.payload = "bad" THEN n
  ELSE IF m.topic = TOPIC_RESPONSE
       THEN IF m.payload \in Urls
            THEN [n EXCEPT !.url = m.payload, !.rcv = TRUE]
            ELSE n
       ELSE n

\* mqttClient.loop(): nothing when the connection is down; notices a lost
\* connection (alive = FALSE); hands at most one received message to the
\* callback.
ClientLoop(n, alive, m) ==
  IF ~n.conn THEN n
  ELSE IF ~alive THEN [n EXCEPT !.conn = FALSE]
  ELSE IF m = NoMsg THEN n
  ELSE MqttCallback(n, m)

\* The answers that matter to a mqttClient call: none while disconnected.
TailInput(alive, m) == mqttConnected \/ (alive /\ m = NoMsg)

----------------------------------------------------------------------------
(* main.cpp: setup() and loop() *)

\* Time the loop() iterations of the capture phase take (us), and the time
\* startCapture spends opening the file and writing the header (us).
LoopDelaysUs == {250 * ECG_INTERVAL_US, 1500 * ECG_INTERVAL_US}
StartDelaysUs == {10000}
\* Time one poll of the handshake wait takes (ms): delay(100), or a
\* mqttClient.loop() that blocks.
WaitDelaysMs == {30000}
\* Buffer writes whose outcome is drawn per handler call.
FlushChoices == 3

FileOf(h) == IF h = NoHandle THEN NoFile ELSE files[h]

\* The state startCapture() leaves the orchestrator in (475-518).
StartStateMain(sd, opened) ==
  IF ~sd THEN STATE_UPLOAD_REQUEST
  ELSE IF ~opened THEN STATE_ERROR
  ELSE STATE_CAPTURING

\* setup() 692-736, which ends in startCapture() 454-521; delays is the
\* time startCapture may spend between reading captureStartTime (459) and
\* arming the scheduler (515).
SetupWith(delays) ==
  /\ pc = "boot"
  /\ \E sd \in BOOLEAN, ts \in Timestamps, opened \in BOOLEAN,
        h \in WriteOutcomes(HEADER_SIZE), d \in delays :
       LET t0 == SETUP_DELAY_MS * 1000
           k == (IF sd /\ ~opened THEN 1 ELSE 0)
                + (IF sd /\ opened /\ h < HEADER_SIZE THEN 1 ELSE 0)
       IN /\ ts = rtc
          /\ faults + k <= MaxFaults
          /\ sd \/ (opened /\ h = HEADER_SIZE)
          /\ opened \/ h = HEADER_SIZE
          /\ sdAvailable' = sd
          /\ captureStartTime' = Millis(t0)
          /\ currentSessionFile' = ts
          /\ currentState' = StartStateMain(sd, opened)
          /\ faults' = faults + k
          /\ IF ~sd
             THEN /\ sampleCount' = SIMULATED_SAMPLES
                  /\ imuSampleCount' = SIMULATED_SAMPLES
                  /\ isCapturing' = FALSE
                  /\ clock' = t0
                  /\ UNCHANGED <<dataFile, files, bufferIndex, lastFlush,
                                 lastECGSample>>
             ELSE IF ~opened
             THEN /\ clock' = t0
                  /\ UNCHANGED <<dataFile, files, sampleCount, imuSampleCount,
                                 isCapturing, bufferIndex, lastFlush,
                                 lastECGSample>>
             ELSE /\ dataFile' = ts
                  /\ files' = [files EXCEPT ![ts] = WriteInitialHeader(NewFile, h)]
                  /\ sampleCount' = 0
                  /\ imuSampleCount' = 0
                  /\ bufferIndex' = 0
                  /\ clock' = t0 + d
                  /\ lastFlush' = Millis(t0 + d)
                  /\ isCapturing' = TRUE
                  /\ lastECGSample' = t0 + d
  /\ pc' = "loop"
  /\ starts' = starts + 1
  /\ UNCHANGED <<netVars, shortFlush, overrun, splitFlush, transfer, rtc, connects, ops, ret>>

\* A scheduler that fires at most once per captureLoop() call.
FiresOnce(now, last) == IF now - last >= ECG_INTERVAL_US THEN 1 ELSE 0

Setup == SetupWith(StartDelaysUs)

\* Scheduler fires of one captureLoop() call: the while loop of 533-555
\* runs once per whole interval between the reference and the time read.
\* The time is read again after each sample (554; holter_capture.cpp 273);
\* the samples of one call are taken here at the time read at its top.
Fires(now, last) == IF now >= last THEN (now - last) \div ECG_INTERVAL_US ELSE 0

\* Whole seconds since boot, whatever the session start.
ElapsedSinceBoot(now, start) == Millis(now) \div 1000

\* Whole seconds since captureStartTime (525).
Elapsed(now, start) == (Millis(now) - start) \div 1000

\* loop() in STATE_CAPTURING: captureLoop() 523-593 before the duration
\* has elapsed; delays is the time that may pass between two calls, kinds
\* the outcomes dataFile.write may have.
CaptureTickWith(delays, kinds) ==
  /\ pc = "loop"
  /\ currentState = STATE_CAPTURING
  /\ \E dt \in delays, ws \in [1 .. FlushChoices -> kinds] :
       /\ faults + Cardinality(ShortKinds(ws)) <= MaxFaults
       /\ LET now == clock + dt
              open == dataFile # NoHandle
              n == Fires(now, lastECGSample)
              w0 == Writer(bufferIndex, FileOf(dataFile))
              w1 == WriteRecords("main", w0, n, sdAvailable, open, ws)
              due == Millis(now) - lastFlush >= MAIN_FLUSH_PERIOD_MS
              w2 == IF due THEN FlushBufferMain(w1, sdAvailable, open, ws) ELSE w1
          IN /\ Elapsed(now, captureStartTime) < CAPTURE_DURATION_SEC
             /\ faults + w2.k <= MaxFaults
             /\ \A i \in 1 .. FlushChoices : i > w2.n => ws[i] = "full"
             /\ clock' = now
             /\ lastECGSample' = lastECGSample + n * ECG_INTERVAL_US
             /\ sampleCount' = sampleCount + n
             /\ bufferIndex' = w2.b
             /\ files' = IF open THEN [files EXCEPT ![dataFile] = w2.f] ELSE files
             /\ lastFlush' = IF due THEN Millis(now) ELSE lastFlush
             /\ faults' = faults + w2.k
             /\ shortFlush' = (shortFlush \/ w2.k > 0)
             /\ overrun' = (overrun \/ w2.over)
             /\ splitFlush' = (splitFlush \/ w2.part)
             /\ UNCHANGED <<transfer, rtc, connects>>
  /\ pc' = "tail"
  /\ UNCHANGED <<currentState, netVars, imuSampleCount, isCapturing,
                 sdAvailable, dataFile, currentSessionFile, captureStartTime,
                 ops, ret, starts>>

CaptureTick == CaptureTickWith(LoopDelaysUs, Kinds)

\* main.cpp stopCapture() 595-687, for the environment's answers e.
StopCaptureMain(capturing, sd, b, f, nEcg, nImu, e) ==
  IF ~capturing
  THEN [state |-> currentState, f |-> f, b |-> b, ops |-> ops, k |-> 0,
        short |-> 0, capturing |-> capturing, closed |-> FALSE]
  ELSE IF ~sd
  THEN [state |-> STATE_UPLOAD_REQUEST, f |-> f, b |-> b, ops |-> <<>>,
        k |-> 0, short |-> 0, capturing |-> FALSE, closed |-> FALSE]
  ELSE LET p == PatchHeaderMain(b, f, nEcg, nImu, e)
           v == VerifyMain(p, nEcg, nImu, e)
       IN [state |-> v.state, f |-> p.f, b |-> p.b, ops |-> v.ops, k |-> v.k,
           short |-> p.short, capturing |-> FALSE, closed |-> TRUE]

\* loop() in STATE_CAPTURING: captureLoop() 523-530 once the duration has
\* elapsed, which is stopCapture().
CaptureStopWith(delays) ==
  /\ pc = "loop"
  /\ currentState = STATE_CAPTURING
  /\ \E dt \in delays, e \in StopAnswersMain :
       LET now == clock + dt
           r == StopCaptureMain(isCapturing, sdAvailable, bufferIndex,
                                FileOf(dataFile), sampleCount, imuSampleCount, e)
       IN /\ Elapsed(now, captureStartTime) >= CAPTURE_DURATION_SEC
          /\ e.r = "none" \/ e.u = "ok"
          /\ faults + r.k <= MaxFaults
          /\ clock' = now
          /\ currentState' = r.state
          /\ isCapturing' = r.capturing
          /\ bufferIndex' = r.b
          /\ files' = IF dataFile # NoHandle
                      THEN [files EXCEPT ![dataFile] = r.f] ELSE files
          /\ dataFile' = IF r.closed THEN NoHandle ELSE dataFile
          /\ ops' = r.ops
          /\ faults' = faults + r.k
          /\ shortFlush' = (shortFlush \/ r.short > 0)
          /\ splitFlush' = (splitFlush \/ SplitIn(r.ops))
          /\ UNCHANGED <<transfer, rtc, connects>>
          /\ UNCHANGED overrun
  /\ pc' = "tail"
  /\ UNCHANGED <<netVars, imuSampleCount, sdAvailable,
                 currentSessionFile, captureStartTime, sampleCount,
                 lastECGSample, lastFlush, ret, starts>>

CaptureStop == CaptureStopWith(LoopDelaysUs)

\* A loop() that calls connectWiFi() while the capture is still running.
ConnectWiFiEarly ==
  /\ pc = "loop"
  /\ currentState \in {STATE_CAPTURING, STATE_UPLOAD_REQUEST}
  /\ \E up \in BOOLEAN :
       currentState' = IF up THEN currentState ELSE STATE_ERROR
  /\ pc' = "wifi"
  /\ UNCHANGED <<netVars, captureVars, sdAvailable, files, clock,
                 faults, shortFlush, overrun, splitFlush, transfer, rtc, connects, ops, ret, starts>>

\* loop() in STATE_UPLOAD_REQUEST, first part: connectWiFi() 137-158.
\* up is what WiFi.status() answers at line 149.  The time connectWiFi and
\* connectMQTT take is not added to clock: the code reads the time again
\* only in requestUploadURL, and only as a difference to that reading.
ConnectWiFi ==
  /\ pc = "loop"
  /\ currentState = STATE_UPLOAD_REQUEST
  /\ \E up \in BOOLEAN :
       currentState' = IF up THEN currentState ELSE STATE_ERROR
  /\ pc' = "wifi"
  /\ UNCHANGED <<netVars, captureVars, sdAvailable, files, clock,
                 faults, shortFlush, overrun, splitFlush, transfer, rtc, connects, ops, ret, starts>>

\* loop() 749-756: WiFi.status() is read again; when it answers connected,
\* connectMQTT() starts (206-225), otherwise the iteration ends.
WiFiCheck ==
  /\ pc = "wifi"
  /\ \E up \in BOOLEAN : pc' = IF up THEN "mqtt" ELSE "tail"
  /\ attempts' = 0
  /\ connects' = 0
  /\ UNCHANGED <<currentState, uploadURL, urlReceived, uploadStartTime,
                 mqttConnected, captureVars, sdAvailable, files, clock,
                 faults, shortFlush, overrun, splitFlush, transfer, rtc, ops,
                 ret, starts>>

\* connectMQTT() 226, 271-272 and loop() 752-754: the retry loop ends
\* without a connection made by this call; connectMQTT returns false.
MqttGiveUp ==
  /\ pc = "mqtt"
  /\ \E alive \in BOOLEAN :
       LET conn == mqttConnected /\ alive
       IN /\ mqttConnected \/ alive
          /\ conn \/ attempts >= MQTT_MAX_ATTEMPTS
          /\ currentState' = STATE_ERROR
          /\ pc' = "tail"
          /\ mqttConnected' = conn
  /\ attempts' = 0
  /\ connects' = 0
  /\ UNCHANGED <<uploadURL, urlReceived, uploadStartTime, captureVars, sdAvailable, files,
                 clock, faults, shortFlush,
                 overrun, splitFlush, transfer, rtc, ops, ret, starts>>

\* How one pass of connectMQTT's retry loop (226-269) ends.
MqttOutcomes ==
  {"connect_failed", "lost_after_connect", "subscribe_failed",
   "lost_while_waiting", "lost_at_return", "ready"}

\* Whether the pass counts as an attempt (attempts++).
CountsAsAttempt(o) ==
  o \in {"connect_failed", "lost_after_connect", "subscribe_failed",
         "lost_while_waiting"}

\* connectMQTT() 226-269: one pass of the retry loop.  On "ready"
\* connectMQTT returns true and loop() goes on to requestUploadURL().
MqttAttempt ==
  /\ pc = "mqtt"
  /\ ~mqttConnected
  /\ attempts < MQTT_MAX_ATTEMPTS
  /\ \E o \in MqttOutcomes, m \in Msgs \cup {NoMsg} :
       LET waited == o \in {"lost_while_waiting", "lost_at_return", "ready"}
           n1 == [Net EXCEPT !.conn = TRUE]
           n2 == IF waited THEN ClientLoop(n1, TRUE, m) ELSE Net
       IN /\ waited \/ m = NoMsg
          /\ SetNet([n2 EXCEPT !.conn = (o = "ready")])
          /\ attempts' = IF o = "ready" THEN 0
                         ELSE IF CountsAsAttempt(o) THEN attempts + 1
                         ELSE attempts
          /\ pc' = IF o = "ready" THEN "request" ELSE "mqtt"
  /\ connects' = IF pc' = "mqtt" THEN Min(connects + 1, MaxConnects) ELSE 0
  /\ UNCHANGED <<currentState, uploadStartTime, captureVars, sdAvailable,
                 files, clock, faults, shortFlush,
                 overrun, splitFlush, transfer, rtc, ops, ret, starts>>

\* requestUploadURL() 275-324: size of the session file, publish.
RequestPublish ==
  /\ pc = "request"
  /\ \E opened \in BOOLEAN :
       LET exists == FileOf(currentSessionFile) # NoFile
           k == IF sdAvailable /\ exists /\ ~opened THEN 1 ELSE 0
       IN /\ faults + k <= MaxFaults
          /\ faults' = faults + k
          /\ (sdAvailable /\ exists) \/ opened
          /\ IF sdAvailable /\ ~(exists /\ opened)
             THEN /\ currentState' = STATE_ERROR
                  /\ pc' = "tail"
                  /\ UNCHANGED <<uploadStartTime, mqttConnected, uploadURL,
                                 urlReceived>>
             ELSE \E published \in BOOLEAN, alive \in BOOLEAN,
                     m \in Msgs \cup {NoMsg} :
                    LET n1 == ClientLoop(Net, alive, m)
                    IN /\ TailInput(alive, m)
                       /\ n1.conn \/ ~published
                       /\ IF published
                          THEN /\ pc' = "wait"
                               /\ uploadStartTime' = Millis(clock)
                               /\ SetNet([n1 EXCEPT !.rcv = FALSE])
                               /\ UNCHANGED currentState
                          ELSE /\ currentState' = STATE_ERROR
                               /\ pc' = "tail"
                               /\ UNCHANGED uploadStartTime
                               /\ SetNet(n1)
  /\ UNCHANGED <<attempts, captureVars, sdAvailable, files, clock,
                 shortFlush, overrun, splitFlush, transfer, rtc, connects, ops, ret, starts>>

\* requestUploadURL() 328-338: one pass of the wait loop.
WaitPoll ==
  /\ pc = "wait"
  /\ ~urlReceived
  /\ Millis(clock) - uploadStartTime < HANDSHAKE_TIMEOUT_MS
  /\ \E dt \in WaitDelaysMs, alive \in BOOLEAN, m \in Msgs \cup {NoMsg} :
       /\ TailInput(alive, m)
       /\ SetNet(ClientLoop(Net, alive, m))
       /\ clock' = clock + dt * 1000
  /\ UNCHANGED <<currentState, pc, uploadStartTime, attempts, captureVars,
                 sdAvailable, files, faults, shortFlush,
                 overrun, splitFlush, transfer, rtc, connects, ops, ret, starts>>

\* A requestUploadURL() that publishes the request again when the wait
\* has timed out.
WaitDoneRetry ==
  /\ pc = "wait"
  /\ urlReceived \/ Millis(clock) - uploadStartTime >= HANDSHAKE_TIMEOUT_MS
  /\ currentState' = IF urlReceived THEN STATE_UPLOADING ELSE currentState
  /\ pc' = IF urlReceived THEN "tail" ELSE "request"
  /\ UNCHANGED <<netVars, captureVars, sdAvailable, files,
                 clock, faults, shortFlush,
                 overrun, splitFlush, transfer, rtc, connects, ops, ret, starts>>

\* A requestUploadURL() that goes on to the upload however the wait ended.
WaitDoneLenient ==
  /\ pc = "wait"
  /\ urlReceived \/ Millis(clock) - uploadStartTime >= HANDSHAKE_TIMEOUT_MS
  /\ currentState' = STATE_UPLOADING
  /\ pc' = "tail"
  /\ UNCHANGED <<netVars, captureVars, sdAvailable, files,
                 clock, faults, shortFlush,
                 overrun, splitFlush, transfer, rtc, connects, ops, ret, starts>>

\* requestUploadURL() 340-345: the wait is over.
WaitDone ==
  /\ pc = "wait"
  /\ urlReceived \/ Millis(clock) - uploadStartTime >= HANDSHAKE_TIMEOUT_MS
  /\ currentState' = IF urlReceived THEN STATE_UPLOADING ELSE STATE_ERROR
  /\ pc' = "tail"
  /\ UNCHANGED <<netVars, captureVars, sdAvailable, files,
                 clock, faults, shortFlush,
                 overrun, splitFlush, transfer, rtc, connects, ops, ret, starts>>

\* HTTP status codes the PUT may return; -1 is a transport failure.
HttpCodes == {200, 204, 500, -1}

\* How far uploadToS3() 355-417 gets: the file cannot be opened, malloc
\* fails, the read is short, or the PUT is made and returns a status code.
UploadStages == {"open_failed", "no_memory", "short_read", "put"}

\* An uploadToS3() that takes every status the server returned for success.
UploadSucceedsOnAnyStatus(stage, code) == stage = "put" /\ code > 0

\* An uploadToS3() that reports success whatever happened.
UploadSucceedsAlways(stage, code) == TRUE

\* uploadToS3() 400: success is exactly status 200 or 204.
UploadSucceeds(stage, code) == stage = "put" /\ code \in {200, 204}

\* loop() in STATE_UPLOADING (758-772).
Upload ==
  /\ pc = "loop"
  /\ currentState = STATE_UPLOADING
  /\ IF ~sdAvailable
     THEN /\ currentState' = STATE_COMPLETE
          /\ UNCHANGED <<files, faults, transfer>>
     ELSE \E o \in UploadStages, code \in HttpCodes, removed \in BOOLEAN :
            LET exists == FileOf(currentSessionFile) # NoFile
                k == IF exists /\ o \in {"open_failed", "short_read"}
                     THEN 1 ELSE 0
                ok == UploadSucceeds(o, code)
            IN /\ exists \/ o = "open_failed"
               /\ o = "put" \/ code = -1
               /\ ok \/ removed
               /\ faults + k <= MaxFaults
               /\ faults' = faults + k
               /\ currentState' = IF ok THEN STATE_COMPLETE ELSE STATE_ERROR
               /\ files' = IF ok /\ removed
                           THEN [files EXCEPT ![currentSessionFile] = NoFile]
                           ELSE files
               /\ transfer' = IF o # "put" THEN transfer
                               ELSE [code |-> code, url |-> uploadURL,
                                     remove |-> IF ~ok THEN "not_called"
                                                ELSE IF removed THEN "removed"
                                                ELSE "failed"]
  /\ pc' = "tail"
  /\ UNCHANGED <<netVars, captureVars, sdAvailable, clock, shortFlush,
                 overrun, splitFlush, rtc, connects, ops,
                 ret, starts>>

\* loop() in STATE_COMPLETE or STATE_ERROR (774-786): ESP.restart() ends
\* the session; nothing of it runs afterwards.
Restart ==
  /\ pc = "loop"
  /\ currentState \in {STATE_COMPLETE, STATE_ERROR}
  /\ pc' = "restarted"
  /\ UNCHANGED <<currentState, netVars, captureVars, sdAvailable, files,
                 clock, faults, shortFlush,
                 overrun, splitFlush, transfer, rtc, connects, ops, ret, starts>>

\* The end of every loop() iteration (789-791):
\* if (mqttClient.connected()) mqttClient.loop();
LoopEnd ==
  /\ pc = "tail"
  /\ \E alive \in BOOLEAN, m \in Msgs \cup {NoMsg} :
       /\ TailInput(alive, m)
       /\ SetNet(ClientLoop(Net, alive, m))
  /\ pc' = "loop"
  /\ UNCHANGED <<currentState, uploadStartTime, attempts, captureVars,
                 sdAvailable, files, clock, faults, shortFlush,
                 overrun, splitFlush, transfer, rtc, connects, ops, ret,
                 starts>>

Next ==
  \/ Setup
  \/ CaptureTick
  \/ CaptureStop
  \/ ConnectWiFi
  \/ WiFiCheck
  \/ MqttGiveUp
  \/ MqttAttempt
  \/ RequestPublish
  \/ WaitPoll
  \/ WaitDone
  \/ Upload
  \/ Restart
  \/ LoopEnd

Spec == Init /\ [][Next]_vars

\* loop() is called again and again by the Arduino core and every routine
\* it calls goes on to its next statement: a step that stays possible is
\* taken.
SpecLive == Spec /\ WF_vars(Next)

----------------------------------------------------------------------------
(* holter_capture.cpp: the public interface, called in any order *)

\* The caller's calls are explored up to this time since boot (s), and
\* up to this many calls of holter_startCapture.
HolterHorizonSec == 17
MaxStarts == 2

InitHolter ==
  /\ BootState
  /\ pc = "library"
  /\ files = [n \in Timestamps |-> NoFile]
  /\ rtc = 1

\* holter_init() 91-162: mounts the SD card.
HolterInit ==
  /\ pc = "library"
  /\ \E mounted \in BOOLEAN :
       LET k == IF isCapturing /\ sdAvailable /\ ~mounted THEN 1 ELSE 0
       IN /\ faults + k <= MaxFaults
          /\ faults' = faults + k
          /\ sdAvailable' = mounted
  /\ UNCHANGED <<currentState, pc, netVars, captureVars, files, clock,
                 shortFlush, overrun, splitFlush, transfer, rtc, connects, ops, ret, starts>>

\* How holter_startCapture() 164-238 may go.
StartOutcomes == {"no_card", "card_removed", "open_failed", "header_short", "started"}

\* What holter_startCapture() returns.
StartReturns(o) == o = "started"

\* isCapturing after holter_startCapture(): cleared only on the "no card"
\* path (187), set on success (233), untouched by the other returns.
CapturingAfterStart(o, was) ==
  IF o = "no_card" THEN FALSE
  ELSE IF o = "started" THEN TRUE
  ELSE was

\* holter_startCapture() 164-238.
HolterStart ==
  /\ pc = "library"
  /\ \E o \in StartOutcomes, ts \in Timestamps, h \in WriteOutcomes(HEADER_SIZE),
        d \in StartDelaysUs :
       LET k == IF o \in {"open_failed", "header_short"} THEN 1
                ELSE IF o = "card_removed" /\ isCapturing THEN 1 ELSE 0
           reached == o \in {"header_short", "started"}
       IN /\ ts = rtc
          /\ (o = "no_card") = ~sdAvailable
          /\ (o = "header_short") => h < HEADER_SIZE
          /\ (o # "header_short") => h = HEADER_SIZE
          /\ faults + k <= MaxFaults
          /\ clock + d <= HolterHorizonSec * 1000000
          /\ starts < MaxStarts
          /\ starts' = starts + 1
          /\ faults' = faults + k
          /\ captureStartTime' = Millis(clock)
          /\ currentSessionFile' = ts
          /\ ret' = StartReturns(o)
          /\ isCapturing' = CapturingAfterStart(o, isCapturing)
          /\ sdAvailable' = (sdAvailable /\ o # "card_removed")
          /\ sampleCount' = IF o = "no_card" THEN SIMULATED_SAMPLES
                            ELSE IF o = "started" THEN 0 ELSE sampleCount
          /\ dataFile' = IF o = "started" THEN ts
                         ELSE IF o \in {"open_failed", "header_short"} THEN NoHandle
                         ELSE dataFile
          /\ files' = IF reached
                      THEN [files EXCEPT ![ts] = WriteInitialHeader(NewFile, h)]
                      ELSE files
          /\ clock' = IF reached THEN clock + d ELSE clock
          /\ bufferIndex' = IF o = "started" THEN 0 ELSE bufferIndex
          /\ lastFlush' = IF o = "started" THEN Millis(clock + d) ELSE lastFlush
          /\ lastECGSample' = IF o = "started" THEN clock + d ELSE lastECGSample
  /\ UNCHANGED <<currentState, pc, netVars, imuSampleCount, shortFlush,
                 overrun, splitFlush, transfer, rtc, connects, ops>>

\* holter_stopCapture() 297-395, for the environment's answers e.
StopCaptureHolter(capturing, sd, open, b, f, nEcg, e) ==
  IF ~capturing
  THEN [f |-> f, b |-> b, ops |-> ops, k |-> 0, short |-> 0]
  ELSE IF ~sd \/ ~open
  THEN [f |-> f, b |-> b, ops |-> <<>>, k |-> 0, short |-> 0]
  ELSE LET p == PatchHeaderHolter(b, f, nEcg, e)
           v == VerifyHolter(p, e)
       IN [f |-> p.f, b |-> p.b, ops |-> v.ops, k |-> v.k, short |-> p.short]

\* The effect of holter_stopCapture() on the state.
HolterStopBody(e) ==
  LET open == dataFile # NoHandle
      r == StopCaptureHolter(isCapturing, sdAvailable, open, bufferIndex,
                             FileOf(dataFile), sampleCount, e)
  IN /\ faults + r.k <= MaxFaults
     /\ faults' = faults + r.k
     /\ isCapturing' = FALSE
     /\ bufferIndex' = r.b
     /\ files' = IF open THEN [files EXCEPT ![dataFile] = r.f] ELSE files
     /\ ops' = r.ops
     /\ shortFlush' = (shortFlush \/ r.short > 0)
     /\ splitFlush' = (splitFlush \/ SplitIn(r.ops))
     /\ UNCHANGED <<transfer, rtc, connects>>
     /\ UNCHANGED overrun

\* The answers holter_stopCapture() may get: one when it touches no file.
StopInputs ==
  IF isCapturing /\ sdAvailable /\ dataFile # NoHandle
  THEN StopAnswersHolter
  ELSE {[ws |-> [i \in 1 .. 1 |-> "full"], j1 |-> COUNT_SIZE,
         j2 |-> COUNT_SIZE, reopen |-> TRUE]}

\* holter_stopCapture() called by the user of the library.
HolterStop ==
  /\ pc = "library"
  /\ \E e \in StopInputs : HolterStopBody(e)
  /\ UNCHANGED <<currentState, pc, netVars, imuSampleCount, sdAvailable,
                 dataFile, currentSessionFile, captureStartTime, sampleCount,
                 lastECGSample, lastFlush, clock, ret, starts>>

\* holter_captureLoop() 240-249 once the duration has elapsed:
\* holter_stopCapture().
HolterLoopStop ==
  /\ pc = "library"
  /\ isCapturing
  /\ \E dt \in LoopDelaysUs :
       /\ clock + dt <= HolterHorizonSec * 1000000
       /\ Elapsed(clock + dt, captureStartTime) >= CAPTURE_DURATION_SEC
       /\ clock' = clock + dt
       /\ \E e \in StopInputs : HolterStopBody(e)
  /\ UNCHANGED <<currentState, pc, netVars, imuSampleCount, sdAvailable,
                 dataFile, currentSessionFile, captureStartTime, sampleCount,
                 lastECGSample, lastFlush, ret, starts>>

\* holter_captureLoop() 240-295 before the duration has elapsed.
HolterLoopTick ==
  /\ pc = "library"
  /\ isCapturing
  /\ \E dt \in LoopDelaysUs, ws \in [1 .. FlushChoices -> Kinds] :
       /\ faults + Cardinality(ShortKinds(ws)) <= MaxFaults
       /\ LET now == clock + dt
              open == dataFile # NoHandle
              n == Fires(now, lastECGSample)
              w0 == Writer(bufferIndex, FileOf(dataFile))
              w1 == WriteRecords("holter", w0, n, sdAvailable, open, ws)
              due == Millis(now) - lastFlush >= HOLTER_FLUSH_PERIOD_MS
              w2 == IF due THEN FlushBufferHolter(w1, sdAvailable, open, ws) ELSE w1
          IN /\ now <= HolterHorizonSec * 1000000
             /\ Elapsed(now, captureStartTime) < CAPTURE_DURATION_SEC
             /\ faults + w2.k <= MaxFaults
             /\ \A i \in 1 .. FlushChoices : i > w2.n => ws[i] = "full"
             /\ clock' = now
             /\ lastECGSample' = lastECGSample + n * ECG_INTERVAL_US
             /\ sampleCount' = sampleCount + n
             /\ bufferIndex' = w2.b
             /\ files' = IF open THEN [files EXCEPT ![dataFile] = w2.f] ELSE files
             /\ lastFlush' = IF due THEN Millis(now) ELSE lastFlush
             /\ faults' = faults + w2.k
             /\ shortFlush' = (shortFlush \/ w2.k > 0)
             /\ overrun' = (overrun \/ w2.over)
             /\ splitFlush' = (splitFlush \/ w2.part)
             /\ UNCHANGED <<transfer, rtc, connects>>
  /\ UNCHANGED <<currentState, pc, netVars, imuSampleCount, isCapturing,
                 sdAvailable, dataFile, currentSessionFile, captureStartTime,
                 ops, ret, starts>>

\* holter_captureLoop() 241: returns at once while no capture is running.
HolterLoopIdle ==
  /\ pc = "library"
  /\ ~isCapturing
  /\ UNCHANGED vars

NextHolter ==
  \/ HolterInit
  \/ HolterStart
  \/ HolterStop
  \/ HolterLoopStop
  \/ HolterLoopTick
  \/ HolterLoopIdle

SpecHolter == InitHolter /\ [][NextHolter]_vars

----------------------------------------------------------------------------
(* Either build of the firmware: the orchestrator or the library.  pc is   *)
(* "library" in every state of the library and never in the orchestrator,  *)
(* so the behaviours are those of Spec together with those of SpecHolter.  *)

InitFirmware == Init \/ InitHolter

NextFirmware == Next \/ NextHolter

SpecFirmware == InitFirmware /\ [][NextFirmware]_vars

----------------------------------------------------------------------------
(* main.cpp's capture phase under a loop() that comes back to captureLoop()
   within one sampling interval *)

\* Time between two captureLoop() calls: one interval.  Time startCapture
\* spends opening the file and writing the header: half an interval or a
\* whole one.
RateLoopDelaysUs == {ECG_INTERVAL_US}
RateStartDelaysUs == {ECG_INTERVAL_US \div 2, ECG_INTERVAL_US}

RateSetup == SetupWith(RateStartDelaysUs)
\* The buffer writes of the capture phase are accepted in full.
RateTick == CaptureTickWith(RateLoopDelaysUs, {"full"})
RateStop == CaptureStopWith(RateLoopDelaysUs)

NextRate ==
  \/ RateSetup
  \/ RateTick
  \/ RateStop
  \/ LoopEnd

SpecRate == Init /\ [][NextRate]_vars

----------------------------------------------------------------------------
(* Session after session.  ESP.restart() (main.cpp 778, 785) or a power
   cycle brings the firmware back to setup(): the RAM is as after
   construction, the card keeps its files.  A power cycle restarts the
   real-time clock, and nothing sets it before startCapture reads it at
   461: syncTime() is called by connectWiFi only (153), after the capture.
   After ESP.restart() the clock has gone on from where it was. *)

RebootKinds == {"power_cycle", "esp_restart"}

Reboot ==
  /\ pc = "restarted"
  /\ \E kind \in RebootKinds :
       /\ (kind = "esp_restart") => rtc < MaxTimestamp
       /\ rtc' = IF kind = "power_cycle" THEN 1 ELSE rtc + 1
  /\ pc' = "boot"
  /\ currentState' = STATE_INIT
  /\ imuSampleCount' = 0
  /\ uploadURL' = ""
  /\ urlReceived' = FALSE
  /\ uploadStartTime' = 0
  /\ attempts' = 0
  /\ mqttConnected' = FALSE
  /\ isCapturing' = FALSE
  /\ sdAvailable' = FALSE
  /\ dataFile' = NoHandle
  /\ currentSessionFile' = 0
  /\ captureStartTime' = 0
  /\ sampleCount' = 0
  /\ lastECGSample' = 0
  /\ lastFlush' = 0
  /\ bufferIndex' = 0
  /\ clock' = 0
  /\ starts' = 0
  /\ faults' = 0
  /\ shortFlush' = FALSE
  /\ overrun' = FALSE
  /\ splitFlush' = FALSE
  /\ transfer' = NoTransfer
  /\ connects' = 0
  /\ ops' = <<>>
  /\ ret' = FALSE
  /\ UNCHANGED files

BootsLoopDelaysUs == {1500 * ECG_INTERVAL_US}

\* The buffer writes of the capture phase are accepted in full.
BootsTick == CaptureTickWith(BootsLoopDelaysUs, {"full"})
BootsStop == CaptureStopWith(BootsLoopDelaysUs)

NextBoots ==
  \/ Setup
  \/ BootsTick
  \/ BootsStop
  \/ ConnectWiFi
  \/ WiFiCheck
  \/ MqttGiveUp
  \/ MqttAttempt
  \/ RequestPublish
  \/ WaitPoll
  \/ WaitDone
  \/ Upload
  \/ Restart
  \/ LoopEnd
  \/ Reboot

SpecBoots == Init /\ [][NextBoots]_vars

----------------------------------------------------------------------------
(* Properties *)

\* The session file on the card, NoFile when there is none.
SessionFile ==
  IF currentSessionFile \in Timestamps THEN files[currentSessionFile] ELSE NoFile

\* A step in which stop-capture ran its finalize part: the capture was
\* running, it is stopped, and store calls were issued.
FinalizeStep == isCapturing /\ ~isCapturing' /\ ops' # <<>>

\* The finalize of the last stop-capture re-opened the file read-only.
Reverified == ops # <<>> /\ ops[Len(ops)].op = "close_r"

\* The file differs from what the in-memory counts say.
Mismatch ==
  \/ SessionFile.size # ExpectedSize(sampleCount, imuSampleCount)
  \/ SessionFile.ecg # sampleCount
  \/ SessionFile.imu # imuSampleCount

\* The order Init < Capturing < RequestingDestination < Transferring <
\* Complete of enum SystemState.
StateOrder ==
  <<STATE_INIT, STATE_CAPTURING, STATE_UPLOAD_REQUEST, STATE_UPLOADING,
    STATE_COMPLETE>>

NextInOrder(s, t) ==
  \E i \in 1 .. (Len(StateOrder) - 1) : StateOrder[i] = s /\ StateOrder[i + 1] = t

\* C1: every change of currentState moves to the immediately next state of
\* the order Init < Capturing < RequestingDestination < Transferring <
\* Complete, or to Error; no state is skipped or entered again.
\* Violated: with no SD card startCapture() takes the orchestrator from
\* STATE_INIT straight to STATE_UPLOAD_REQUEST.
C1_LinearPath ==
  [][currentState' # currentState =>
       \/ currentState' = STATE_ERROR
       \/ NextInOrder(currentState, currentState')]_vars

\* C2: once currentState is Error or Complete, no later step of the session
\* changes it.
\* Violated: connectWiFi() sets STATE_ERROR, loop() reads WiFi.status()
\* again, and requestUploadURL() then sets STATE_UPLOADING.
C2_TerminalStates ==
  [][(currentState \in {STATE_COMPLETE, STATE_ERROR}) =>
       (currentState' = currentState)]_vars

\* C3: startCapture always leaves the orchestrator in Capturing, whatever
\* the store does; never in Error or RequestingDestination.
\* Violated: no card gives STATE_UPLOAD_REQUEST, a failed open STATE_ERROR.
C3_StartAlwaysCapturing ==
  [][starts' = starts + 1 => (currentState' = STATE_CAPTURING)]_vars

\* C4: when the file that finalize re-opened differs from the in-memory
\* counts (header counts or size), the orchestrator goes to Error.
\* Violated: stopCapture() only prints a warning and sets
\* STATE_UPLOAD_REQUEST.
C4_MismatchIsError ==
  [][FinalizeStep /\ Reverified' /\ Mismatch' =>
       (currentState' = STATE_ERROR)]_vars

\* C5: whenever the session file is eligible for transfer (state
\* RequestingDestination or Transferring, card mounted), the counts in its
\* header equal the in-memory counts.
\* Violated: a header write that the card does not accept leaves the
\* placeholder zeros, and the state is STATE_UPLOAD_REQUEST all the same.
C5_CountsWhenEligible ==
  (/\ currentState \in {STATE_UPLOAD_REQUEST, STATE_UPLOADING}
   /\ sdAvailable
   /\ SessionFile # NoFile)
  => (SessionFile.ecg = sampleCount /\ SessionFile.imu = imuSampleCount)

\* C6: header round trip.  When the card accepted every call of the session
\* in full, after finalize the header on the card holds the in-memory
\* counts sampleCount (N) and imuSampleCount (M), and the file is
\* HEADER_SIZE + N*6 + M*6 bytes long.  Neither build records IMU samples
\* on the card, so M is 0 in every finalize.
C6_HeaderRoundTrip ==
  [][FinalizeStep /\ faults' = 0 =>
       /\ SessionFile'.ecg = sampleCount'
       /\ SessionFile'.imu = imuSampleCount'
       /\ SessionFile'.size = ExpectedSize(sampleCount', imuSampleCount')]_vars

\* A finalized capture of more than one buffer of samples, on a card that
\* accepted everything, whose file holds the counts.
C6_Witness ==
  /\ ~isCapturing
  /\ Reverified
  /\ faults = 0
  /\ sampleCount * ECG_RECORD_SIZE > BUFFER_SIZE
  /\ SessionFile.ecg = sampleCount
  /\ SessionFile.size = ExpectedSize(sampleCount, imuSampleCount)

\* C7: after a short write in a flush during streaming, stop-capture does
\* not end in the state of a successful finalize.
\* Violated: stopCapture() ends in STATE_UPLOAD_REQUEST.
C7_ShortWriteReported ==
  [][FinalizeStep /\ shortFlush =>
       (currentState' # STATE_UPLOAD_REQUEST)]_vars

\* C8: every write of the finalize-time header patch lies inside the bytes
\* [20, 28) of the file, and header bytes 0..19 and the sample bytes are
\* unchanged by finalize.
\* Violated: stopCapture() of main.cpp writes all 28 header bytes at
\* offset 0, from a FileHeader it read back without checking the read.
C8_PatchOnlyCounts ==
  [][FinalizeStep =>
       /\ \A i \in DOMAIN ops' :
            ops'[i].op = "write" =>
              /\ ops'[i].off >= OFFSET_NUM_ECG
              /\ ops'[i].off + ops'[i].len <= HEADER_SIZE
       /\ SessionFile'.fixed = SessionFile.fixed
       /\ SessionFile'.data = SessionFile.data]_vars

\* C9: in the store calls of a finalize, every write of the counts is
\* issued with the buffer cursor at 0 and after the buffer's own write, a
\* store flush follows it, and the read-only re-open comes after that
\* flush.
C9_FinalizeOrder ==
  \A i \in DOMAIN ops :
    ops[i].op = "write" =>
      /\ ops[i].cur = 0
      /\ \A b \in DOMAIN ops : ops[b].op = "bufwrite" => b < i
      /\ \E j \in DOMAIN ops : j > i /\ ops[j].op = "flush"
      /\ \A k \in DOMAIN ops :
           ops[k].op = "open_r" =>
             \E j \in DOMAIN ops : i < j /\ j < k /\ ops[j].op = "flush"

\* A finalize that flushed a non-empty buffer, patched the header and
\* re-opened the file.
C9_Witness ==
  /\ \E i \in DOMAIN ops : ops[i].op = "bufwrite" /\ ops[i].len > 0
  /\ \E i \in DOMAIN ops : ops[i].op = "write"
  /\ \E i \in DOMAIN ops : ops[i].op = "open_r"

\* C10: after finalize the session file has no open write handle.
\* Violated: holter_stopCapture() never closes dataFile.
C10_WriterClosed ==
  [][FinalizeStep => (dataFile' = NoHandle)]_vars

\* C11: the write-buffer cursor stays within 0 .. BUFFER_SIZE in every
\* reachable state of both builds, and no byte has been stored at
\* writeBuffer[i] with i >= BUFFER_SIZE, whatever the store did (card not
\* mounted, handle invalid, writes accepted short or not at all).
C11_CursorInBounds ==
  /\ 0 <= bufferIndex
  /\ bufferIndex <= BUFFER_SIZE
  /\ ~overrun

\* The buffer has overflowed into a flush, a buffer write was accepted
\* short, and appends went on after it.
C11_Witness ==
  /\ isCapturing
  /\ splitFlush
  /\ shortFlush
  /\ bufferIndex > 0
  /\ ~overrun

\* C12: every buffer flush writes a whole number of 6-byte sample records:
\* no record has some of its bytes in one flush and the rest in the next.
\* Violated: writeToBuffer stores byte by byte and flushes when the cursor
\* reaches BUFFER_SIZE, which is not a multiple of the record size, so the
\* overflow flush ends two bytes into a record.
C12_WholeRecordFlushes ==
  ~splitFlush

\* C13: no append loses bytes: when a session is finalized (after the final
\* forced flush) the number of bytes the store accepted through buffer
\* flushes equals the number of bytes appended with writeToBuffer, whatever
\* the store's write results.
\* Violated: flushBuffer resets the cursor whatever write returned, so the
\* bytes a short write did not accept are dropped.
C13_NoByteLost ==
  [][FinalizeStep /\ SessionFile.hlen = HEADER_SIZE =>
       (SessionFile'.size - HEADER_SIZE = sampleCount' * ECG_RECORD_SIZE)]_vars

MAX_ECG_SAMPLES == ECG_SAMPLE_RATE_HZ * CAPTURE_DURATION_SEC

\* A step in which captureLoop() found the session complete.
CompletionStep ==
  currentState = STATE_CAPTURING /\ currentState' # STATE_CAPTURING

\* C15: rate fidelity.  With a clock that advances by a fixed amount per
\* call and at most one interval spent per captureLoop call and between
\* reading the session start time and arming the scheduler, the number of
\* scheduler fires at session completion is within
\* MAX_ECG_SAMPLES - 1 .. MAX_ECG_SAMPLES + 1.
\* Violated: the duration is measured from captureStartTime, read before
\* the file is opened, while the scheduler is armed after the header is
\* written, and the call that finds the duration elapsed samples nothing.
C15_RateFidelity ==
  [][CompletionStep =>
       (sampleCount' \in (MAX_ECG_SAMPLES - 1) .. (MAX_ECG_SAMPLES + 1))]_vars

\* C16: end-to-end capture.  When a capture at 250 Hz for 15 s without IMU
\* has completed on a store that worked throughout, the sample count is
\* exactly MAX_ECG_SAMPLES, the header counts on the store are
\* (MAX_ECG_SAMPLES, 0) and the file size is
\* HEADER_SIZE + MAX_ECG_SAMPLES * ECG_RECORD_SIZE.
\* Violated: the capture ends on elapsed wall-clock time, not on the sample
\* count, and the last call before the deadline reads a time less than
\* CAPTURE_DURATION_SEC after the scheduler was armed.
C16_EndToEnd ==
  [][FinalizeStep /\ faults' = 0 =>
       /\ sampleCount' = MAX_ECG_SAMPLES
       /\ SessionFile'.ecg = MAX_ECG_SAMPLES
       /\ SessionFile'.imu = 0
       /\ SessionFile'.size = ExpectedSize(MAX_ECG_SAMPLES, 0)]_vars

\* C17: session completion is decided by the time elapsed since session
\* start alone: the step that leaves Capturing is taken when and only when
\* the elapsed whole seconds have reached CAPTURE_DURATION_SEC, whatever
\* the sample count.  It is signalled once per session: once the capture
\* is stopped it is not running again, so finalize runs at most once, and
\* once Capturing is left it is not entered again, so the transition
\* Capturing -> RequestingDestination fires at most once.
C17_CompletionOnce ==
  [][/\ CompletionStep =>
          ((Millis(clock') - captureStartTime) \div 1000 >= CAPTURE_DURATION_SEC)
     /\ (pc = "loop" /\ currentState = STATE_CAPTURING
           /\ currentState' = STATE_CAPTURING) =>
          ((Millis(clock') - captureStartTime) \div 1000 < CAPTURE_DURATION_SEC)
     /\ FinalizeStep => (CompletionStep /\ ops = <<>>)
     /\ (pc # "boot" /\ ~isCapturing) => ~isCapturing'
     /\ (pc # "boot" /\ currentState # STATE_CAPTURING) =>
          (currentState' # STATE_CAPTURING)]_vars

\* The session was completed and finalized, and the orchestrator has gone
\* on from RequestingDestination.
C17_Witness ==
  /\ ~isCapturing
  /\ ops # <<>>
  /\ sampleCount > 0
  /\ currentState \in {STATE_UPLOADING, STATE_COMPLETE}

\* C18: the capture completes and is finalized before any network activity:
\* while the orchestrator is in Init or Capturing there is no MQTT
\* connection, control is in none of connectWiFi, connectMQTT,
\* requestUploadURL or uploadToS3, and the step taken (stop-capture
\* included) enters none of them and leaves the network state untouched.
C18_CaptureBeforeNetwork ==
  [][(currentState \in {STATE_INIT, STATE_CAPTURING}) =>
       /\ ~mqttConnected
       /\ pc \in {"boot", "loop", "tail"}
       /\ pc' \in {"loop", "tail"}
       /\ UNCHANGED netVars]_vars

\* loop() has gone round during a capture, its tail included, and the
\* network state is as at boot.
C18_Witness ==
  /\ currentState = STATE_CAPTURING
  /\ pc = "loop"
  /\ sampleCount > 0
  /\ ~mqttConnected
  /\ uploadURL = ""

\* C19: the orchestrator enters Transferring only from the handshake wait
\* and only with a destination received; publishing the request clears the
\* receipt flag and starts the timer, and the flag is set again only by a
\* poll begun before HANDSHAKE_TIMEOUT_MS had passed, so the destination was
\* received after the publish and before the timeout.  When
\* requestUploadURL returns without having published, or the wait ends
\* with no destination received (the timeout has expired), the state is
\* Error.
C19_HandshakeGate ==
  [][/\ (currentState' = STATE_UPLOADING /\ currentState # STATE_UPLOADING) =>
          (pc = "wait" /\ urlReceived)
     /\ (pc = "request" /\ pc' = "wait") =>
          (~urlReceived' /\ uploadStartTime' = Millis(clock'))
     /\ (pc = "wait" /\ ~urlReceived /\ urlReceived') =>
          (Millis(clock) - uploadStartTime < HANDSHAKE_TIMEOUT_MS)
     /\ (pc = "request" /\ pc' # "request" /\ pc' # "wait") =>
          (currentState' = STATE_ERROR)
     /\ (pc = "wait" /\ pc' # "wait" /\ ~urlReceived) =>
          /\ currentState' = STATE_ERROR
          /\ Millis(clock) - uploadStartTime >= HANDSHAKE_TIMEOUT_MS]_vars

\* The destination arrived in the last poll before the timeout and the
\* orchestrator went on to Transferring.
C19_Witness ==
  /\ currentState = STATE_UPLOADING
  /\ pc = "tail"
  /\ urlReceived
  /\ Millis(clock) - uploadStartTime >= HANDSHAKE_TIMEOUT_MS

\* A message on a topic other than the response topic, or whose payload is
\* malformed or has no upload_url.
Ignored(m) == m.topic # TOPIC_RESPONSE \/ m.payload \notin Urls

\* C20: a message on another topic, or with a malformed payload or one
\* without upload_url, leaves urlReceived, uploadURL and uploadStartTime
\* as they are: in every state the callback and the service loop return
\* the network state unchanged for such a message, no step of the wait
\* changes uploadStartTime, and a step of the wait that does not set
\* urlReceived does not change uploadURL.
C20_IgnoredMessageFrame ==
  [][/\ \A m \in Msgs :
          Ignored(m) =>
            /\ MqttCallback(Net, m) = Net
            /\ ClientLoop([Net EXCEPT !.conn = TRUE], TRUE, m)
                 = [Net EXCEPT !.conn = TRUE]
     /\ (pc = "wait") => (uploadStartTime' = uploadStartTime)
     /\ (pc = "wait" /\ ~urlReceived') => (uploadURL' = uploadURL)]_vars

\* The wait has polled, no destination has been received and the timeout
\* has not expired.
C20_Witness ==
  /\ pc = "wait"
  /\ mqttConnected
  /\ ~urlReceived
  /\ Millis(clock) > uploadStartTime
  /\ Millis(clock) - uploadStartTime < HANDSHAKE_TIMEOUT_MS

\* C21: handshake timeout.  The wait of requestUploadURL always ends, and
\* it ends either with a destination received or in Error; the wait is
\* entered only by a publish that is the first of the session, and left
\* only to the end of loop(), so the request resolves once.
C21_HandshakeTimeout ==
  /\ (pc = "wait") ~>
        (pc = "tail" /\ (urlReceived \/ currentState = STATE_ERROR))
  /\ [][/\ (pc # "wait" /\ pc' = "wait") =>
             (pc = "request" /\ uploadStartTime = 0 /\ uploadStartTime' > 0)
        /\ (pc = "wait" /\ pc' # "wait") => (pc' = "tail")]_vars

\* The wait ran to the timeout with no destination and the orchestrator is
\* in Error.
C21_Witness ==
  /\ pc = "tail"
  /\ currentState = STATE_ERROR
  /\ ~urlReceived
  /\ mqttConnected
  /\ uploadStartTime > 0
  /\ Millis(clock) - uploadStartTime >= HANDSHAKE_TIMEOUT_MS

\* C22: the session file is removed only after the transfer has been
\* confirmed: SD.remove has been called only if the PUT returned 200 or
\* 204, and the session file leaves the store only in the uploadToS3 step
\* whose PUT returned 200 or 204; never before the PUT, never after another
\* status or a transport failure.
C22_RemoveAfterSuccess ==
  [][/\ (transfer'.remove # "not_called") => (transfer'.code \in {200, 204})
     /\ (SessionFile # NoFile /\ SessionFile' = NoFile) =>
          /\ currentState = STATE_UPLOADING
          /\ transfer = NoTransfer
          /\ transfer'.code \in {200, 204}
          /\ transfer'.remove = "removed"]_vars

\* The PUT returned 204 and the session file has been removed.
C22_Witness ==
  /\ transfer.code = 204
  /\ transfer.remove = "removed"
  /\ currentSessionFile \in Timestamps
  /\ SessionFile = NoFile

\* C23: a successful transfer deletes the file: whenever the orchestrator
\* is in Complete for a session that was persisted to the store, the
\* session file is no longer on the store, also when SD.remove reported
\* failure.
\* Violated: uploadToS3 returns true whatever SD.remove returned.
C23_CompleteMeansDeleted ==
  (currentState = STATE_COMPLETE /\ sdAvailable) => (SessionFile = NoFile)

\* C24: on any transfer failure (the file cannot be opened or read in
\* full, no memory, a transport failure, a status other than 200 and 204)
\* the session file and the rest of the store are left as they were and the
\* orchestrator moves from Transferring to Error.
C24_FailureKeepsFile ==
  [][(pc = "loop" /\ currentState = STATE_UPLOADING /\ sdAvailable
        /\ ~(transfer' # transfer /\ transfer'.code \in {200, 204})) =>
       (currentState' = STATE_ERROR /\ files' = files)]_vars

\* The PUT returned 500; the orchestrator is in Error and the session file
\* is on the store.
C24_Witness ==
  /\ currentState = STATE_ERROR
  /\ transfer.code = 500
  /\ transfer.remove = "not_called"
  /\ SessionFile # NoFile

\* C25: the session id is a uniqueness key: no startCapture, in whatever
\* boot, gives its session the name of a file an earlier session left on
\* the store, so the file it opens for writing is a new one and no
\* preserved file is truncated.
C25_UniqueSessionFile ==
  [][(pc = "boot" /\ pc' # "boot" /\ dataFile' # NoHandle) =>
       (FileOf(currentSessionFile') = NoFile)]_vars

\* C26: degraded mode: a session started without the store still captures
\* for the configured duration and reports as many samples as its
\* scheduler fired (none when it never fired); once such a session is past
\* Capturing, the duration has run out and a scheduler that never fired
\* has counted nothing.
\* Violated: without a card startCapture() sets sampleCount to 100 and
\* goes to STATE_UPLOAD_REQUEST at once.
C26_DegradedCapture ==
  (pc # "boot" /\ ~sdAvailable /\ currentState # STATE_CAPTURING) =>
    /\ (Millis(clock) - captureStartTime) \div 1000 >= CAPTURE_DURATION_SEC
    /\ (lastECGSample = 0) => (sampleCount = 0)

\* C30: connectMQTT is a bounded retry: it makes at most 3 connect calls to
\* the broker before it returns.
\* Violated: a pass whose connection is lost between the subscription wait
\* (252-259) and the test at 260 does not count as an attempt.
C30_BoundedConnects == connects <= MQTT_MAX_ATTEMPTS

\* C27: every session comes to an end: whatever the store, the WiFi, the
\* broker and the HTTP endpoint do, the orchestrator eventually is in
\* Complete or in Error.
\* Violated: loop() in STATE_UPLOAD_REQUEST has no bound of its own; a
\* WiFi link that is up at 149 and down at 749, or a broker connection
\* lost at 260, leaves the state as it is, again and again.
C27_SessionEnds == <>(currentState \in {STATE_COMPLETE, STATE_ERROR})

\* C28: the destination of the PUT is the upload_url of the first matching
\* response of the handshake wait: from the moment the handshake has
\* resolved (STATE_UPLOADING, with a file to send) no later message
\* changes uploadURL, and the PUT is sent to uploadURL.
\* Violated: mqttCallback() stores every upload_url it is handed, also the
\* one of a message that mqttClient.loop() at 789-791 delivers between
\* requestUploadURL() and uploadToS3().
C28_FirstResponseWins ==
  [][/\ (currentState = STATE_UPLOADING /\ sdAvailable) => (uploadURL' = uploadURL)
     /\ (transfer'.code # 0) => (transfer'.url = uploadURL)]_vars

\* C29: whenever the last holter_startCapture() returned false, no capture
\* is running (holter_isCapturing() is false), whatever was called before.
\* Violated: the returns at 194, 202 and 224 leave isCapturing as it was,
\* so a start that fails while a capture runs leaves it running.
C29_FailedStartNotCapturing == (starts > 0 /\ ~ret) => ~isCapturing

============================================================================
